---- MODULE Spec2Model ----
(***************************************************************************)
(* Model of the streaming ingestion core of frontend/src/app/page.tsx:     *)
(* handleSubmit (the read loop), upsertOutput, normalizeOutput and the     *)
(* state of the Home component they write.                                 *)
(*                                                                         *)
(* Text is modelled as a sequence of lexemes, each a TLA+ string: the text *)
(* of the response body, a string inside a JSON value and the content of   *)
(* an AgentOutput alike.  Chunk boundaries fall between lexemes.           *)
(*                                                                         *)
(* Spec has the read loop on bodies of up to MaxFrames frames cut into     *)
(* chunks anywhere; ShapeSpec has it on one frame with a payload of any    *)
(* shape; StoreSpec on up to MaxEvents frames, one per chunk, with         *)
(* documents added meanwhile; DecodeSpec has the decoding of the bytes.    *)
(***************************************************************************)
EXTENDS Integers, Sequences, FiniteSets, TLC

VARIABLES
    isLoading,     \* useState(false)
    outputs,       \* useState<AgentOutput[]>([])
    expandedMap,   \* useState<Record<string, boolean>>({}): the keys set to true
    snackbarOpen,  \* useState(false)
    snackbarMsg,   \* useState("")
    consoleErrors, \* console.error calls made by this invocation of handleSubmit
    pc,            \* where the one invocation of handleSubmit stands
    wire,          \* the text of the response body the server sends
    pos,           \* how many lexemes of wire the reader has delivered
    handed,        \* the (eventType, dataString) pairs that reached JSON.parse
    decoder,       \* new TextDecoder(): the state it keeps between two calls
    decoded,       \* the text the calls of decoder.decode returned, in a row
    splits         \* how many chunks ended inside a character

\* what the decoding of the bytes of the body writes
decoding == <<decoder, decoded, splits>>

vars == <<isLoading, outputs, expandedMap, snackbarOpen, snackbarMsg,
          consoleErrors, pc, wire, pos, handed, decoding>>

(***************************************************************************)
(* Bounds of the model.                                                    *)
(***************************************************************************)
MaxFrames == 2
MaxEvents == 3
MaxChars == 3

(***************************************************************************)
(* JSON values.  Every value is a record of the same four fields so that   *)
(* any two values can be compared.                                         *)
(*   ty     "null" | "boolean" | "number" | "string" | "array" | "object"  *)
(*   str    the string's lexemes (for boolean and number: String(value))   *)
(*   items  the array's elements                                           *)
(*   fields the object's entries [k, v] in insertion order                 *)
(***************************************************************************)
JNull == [ty |-> "null", str |-> <<>>, items |-> <<>>, fields |-> <<>>]
JUndefined == [ty |-> "undefined", str |-> <<>>, items |-> <<>>, fields |-> <<>>]
JStr(s) == [ty |-> "string", str |-> s, items |-> <<>>, fields |-> <<>>]
JNum(s) == [ty |-> "number", str |-> s, items |-> <<>>, fields |-> <<>>]
JBool(b) == [ty |-> "boolean", str |-> IF b THEN <<"true">> ELSE <<"false">>,
             items |-> <<>>, fields |-> <<>>]
JArr(xs) == [ty |-> "array", str |-> <<>>, items |-> xs, fields |-> <<>>]
JObj(fs) == [ty |-> "object", str |-> <<>>, items |-> <<>>, fields |-> fs]
KV(k, v) == [k |-> k, v |-> v]

NL == "\n"

\* obj[key]: the value of the first entry named key, or undefined.
RECURSIVE GetIn(_, _)
GetIn(fs, key) ==
    IF fs = <<>> THEN JUndefined
    ELSE IF Head(fs).k = key THEN Head(fs).v
    ELSE GetIn(Tail(fs), key)

Get(v, key) == IF v.ty = "object" THEN GetIn(v.fields, key) ELSE JUndefined

\* JavaScript truthiness of a value.
Truthy(v) ==
    CASE v.ty \in {"undefined", "null"} -> FALSE
      [] v.ty = "string" -> v.str # <<>>
      [] v.ty = "number" -> v.str \notin {<<"0">>, <<"NaN">>}
      [] v.ty = "boolean" -> v.str = <<"true">>
      [] OTHER -> TRUE

RECURSIVE Concat(_)
Concat(ss) == IF ss = <<>> THEN <<>> ELSE Head(ss) \o Concat(Tail(ss))

(***************************************************************************)
(* String(value) and Array.prototype.join, as JavaScript defines them.     *)
(***************************************************************************)
RECURSIVE String(_), Join(_, _)
String(v) ==
    CASE v.ty = "undefined" -> <<"undefined">>
      [] v.ty = "null" -> <<"null">>
      [] v.ty = "array" -> Join(v.items, <<",">>)
      [] v.ty = "object" -> <<"[object Object]">>
      [] OTHER -> v.str

Join(xs, sep) ==
    IF xs = <<>> THEN <<>>
    ELSE LET h == IF Head(xs).ty \in {"undefined", "null"} THEN <<>>
                  ELSE String(Head(xs))
         IN IF Len(xs) = 1 THEN h ELSE h \o sep \o Join(Tail(xs), sep)

\* s.replace(/\\n/g, "\n"): every backslash-n escape becomes a newline.
Unescape(s) == [i \in 1..Len(s) |-> IF s[i] = "\\n" THEN NL ELSE s[i]]

(***************************************************************************)
(* JSON.stringify(value, null, 2).  ind is the current indentation, a      *)
(* sequence of "  " lexemes.                                               *)
(***************************************************************************)
Quote(s) ==
    <<"\"">> \o [i \in 1..Len(s) |->
                    CASE s[i] = NL -> "\\n"
                      [] s[i] = "\"" -> "\\\""
                      [] OTHER -> s[i]] \o <<"\"">>

RECURSIVE Stringify(_, _), StringifyItems(_, _), StringifyFields(_, _)
Stringify(v, ind) ==
    CASE v.ty \in {"null", "undefined"} -> <<"null">>
      [] v.ty = "string" -> Quote(v.str)
      [] v.ty = "array" ->
            IF v.items = <<>> THEN <<"[]">>
            ELSE <<"[", NL>> \o StringifyItems(v.items, ind \o <<"  ">>)
                 \o <<NL>> \o ind \o <<"]">>
      [] v.ty = "object" ->
            IF v.fields = <<>> THEN <<"{}">>
            ELSE <<"{", NL>> \o StringifyFields(v.fields, ind \o <<"  ">>)
                 \o <<NL>> \o ind \o <<"}">>
      [] OTHER -> v.str

StringifyItems(xs, ind) ==
    ind \o Stringify(Head(xs), ind)
    \o (IF Len(xs) = 1 THEN <<>> ELSE <<",", NL>> \o StringifyItems(Tail(xs), ind))

StringifyFields(fs, ind) ==
    ind \o Quote(<<Head(fs).k>>) \o <<": ">> \o Stringify(Head(fs).v, ind)
    \o (IF Len(fs) = 1 THEN <<>> ELSE <<",", NL>> \o StringifyFields(Tail(fs), ind))

(***************************************************************************)
(* item.match of the wrapper pattern: "content=" at the start, an optional *)
(* quote, any text (greedy), and the same quote again.  Group 2 is the     *)
(* text between the opening quote and the last occurrence of that quote    *)
(* when there is one, and the whole remainder when there is not.           *)
(***************************************************************************)
ContentMatches(s) == s # <<>> /\ s[1] = "content="

ContentGroup2(s) ==
    LET rest == Tail(s)
        closers == IF rest = <<>> \/ rest[1] \notin {"\"", "'"} THEN {}
                   ELSE {j \in 2..Len(rest) : rest[j] = rest[1]}
    IN IF closers = {} THEN rest
       ELSE LET j == CHOOSE m \in closers : \A n \in closers : n <= m
            IN SubSeq(rest, 2, j - 1)

(***************************************************************************)
(* content.replace of level-2 headings, with the g and m flags: at the     *)
(* start of a line, the marker "##", the white space after it (newlines    *)
(* included) and the rest of the line become the rest of the line between  *)
(* two bold markers.                                                       *)
(***************************************************************************)
IsSpace(c) == c \in {" ", NL}

RECURSIVE SkipSpace(_, _), LineEnd(_, _), Downgrade(_, _)
\* the first index >= i that holds no white space
SkipSpace(s, i) == IF i <= Len(s) /\ IsSpace(s[i]) THEN SkipSpace(s, i + 1) ELSE i
\* the first index >= i that holds a newline, or Len(s) + 1
LineEnd(s, i) == IF i <= Len(s) /\ s[i] # NL THEN LineEnd(s, i + 1) ELSE i

Downgrade(s, i) ==
    IF i > Len(s) THEN <<>>
    ELSE IF /\ s[i] = "##"
            /\ (i = 1 \/ s[i - 1] = NL)
            /\ i < Len(s) /\ IsSpace(s[i + 1])
         THEN LET b == SkipSpace(s, i + 1)
                  e == LineEnd(s, b)
              IN <<"**">> \o SubSeq(s, b, e - 1) \o <<"**">> \o Downgrade(s, e)
         ELSE <<s[i]>> \o Downgrade(s, i + 1)

DowngradeHeadings(s) == Downgrade(s, 1)

(***************************************************************************)
(* normalizeOutput                                                         *)
(***************************************************************************)
FirstItem(rawContent) ==
    IF rawContent.ty = "array"
    THEN IF rawContent.items = <<>> THEN JUndefined ELSE rawContent.items[1]
    ELSE rawContent

\* A faulty section: the value without its label.
SectionUnlabelled(item, key, label) ==
    IF Truthy(Get(item, key)) THEN String(Get(item, key)) \o <<NL, NL>> ELSE <<>>

Section(item, key, label) ==
    IF Truthy(Get(item, key))
    THEN <<label, NL, NL>> \o String(Get(item, key)) \o <<NL, NL>>
    ELSE <<>>

\* typeof item === 'object': true of objects, of arrays and of null
TypeofObject(item) == item.ty \in {"object", "array", "null"}

\* A faulty test: null, whose type is object too, is not told apart.
IsObjectOrNull(item) == TypeofObject(item)

\* item && typeof item === 'object'
IsObjectItem(item) == Truthy(item) /\ TypeofObject(item)

ReportContent(item) ==
    IF item.ty = "string"
    THEN IF ContentMatches(item.str) THEN Unescape(ContentGroup2(item.str))
         ELSE item.str
    ELSE IF IsObjectItem(item)
    THEN IF Truthy(Get(item, "error"))
         THEN <<"**Error:** ">> \o String(Get(item, "error"))
              \o (IF Truthy(Get(item, "raw_output"))
                  THEN <<NL, NL, "**Raw Output:**", NL, NL>>
                       \o String(Get(item, "raw_output"))
                  ELSE <<>>)
         ELSE LET sections ==
                      Section(item, "key_insights", "**Key Insights**")
                      \o Section(item, "comparative_analysis", "**Comparative Analysis**")
                      \o Section(item, "narrative", "**Narrative**")
                      \o Section(item, "conclusion", "**Conclusion**")
              IN IF sections = <<>> THEN Stringify(item, <<>>) ELSE sections
    ELSE String(item)

\* Reading a property of null or of undefined raises a TypeError.
ReadRaises(v) == v.ty \in {"null", "undefined"}

\* Whether normalizeOutput raises: join is called on arrays only and replace
\* and match on strings only, so that all it can raise is the TypeError of
\* reading item.error, which it reads of an item that passed the object test.
normalizeRaises(type, rawContent) ==
    /\ type = "report"
    /\ LET item == FirstItem(rawContent)
       IN item.ty # "string" /\ IsObjectItem(item) /\ ReadRaises(item)

\* A faulty separator: one line break.
LineBreak == <<NL>>

\* the separator the elements of research_data are joined with
BlankLine == <<NL, NL>>

normalizeOutput(agent, type, rawContent) ==
    LET content ==
            IF type = "research_data" /\ rawContent.ty = "array"
            THEN Join(rawContent.items, BlankLine)
            ELSE IF type = "analysis"
            THEN LET item == FirstItem(rawContent)
                 IN IF item.ty = "string" THEN Unescape(item.str) ELSE String(item)
            ELSE IF type = "report"
            THEN DowngradeHeadings(ReportContent(FirstItem(rawContent)))
            ELSE String(rawContent)
    IN [agent |-> agent, type |-> type, content |-> content]

(***************************************************************************)
(* The wire.  A frame is "event: <name>\ndata: <json>\n\n".  A JSON text   *)
(* is three lexemes: its opening, its body (a name for the value the text  *)
(* denotes) and its closing, so that a chunk boundary can fall inside it   *)
(* and leave an incomplete text.                                           *)
(***************************************************************************)
\* The JSON values a body lexeme may stand for, by the lexeme's name.
ResearchA == JObj(<<KV("researcher",
                 JObj(<<KV("research_data", JArr(<<JStr(<<"a">>), JStr(<<"b">>)>>))>>))>>)
ReportR == JObj(<<KV("report_writer", JObj(<<KV("report", JStr(<<"r">>))>>))>>)
ErrorBoom == JObj(<<KV("error", JStr(<<"boom">>))>>)
ErrorBang == JObj(<<KV("error", JStr(<<"bang">>))>>)

Bodies == {"ResearchA", "ReportR", "ErrorBoom", "ErrorBang"}
Payload(body) ==
    CASE body = "ResearchA" -> ResearchA
      [] body = "ReportR" -> ReportR
      [] body = "ErrorBoom" -> ErrorBoom
      [] body = "ErrorBang" -> ErrorBang

JSONText(body) == <<"{", body, "}">>

(***************************************************************************)
(* The values a stage may report, by shape: every kind of JSON value, the  *)
(* empty ones included, and the objects and strings normalizeOutput tells  *)
(* apart.  The record's field names are the lexemes that stand for the     *)
(* values in a JSON text.  The lexeme <fence> is the mark of a fenced code  *)
(* block, three backquotes; the JSON text inside the block of the shape    *)
(* fenced is that of the shape insights.                                   *)
(***************************************************************************)
Insights ==
    JObj(<<KV("key_insights", JStr(<<"k">>)),
           KV("comparative_analysis", JStr(<<"c">>)),
           KV("narrative", JStr(<<"n">>))>>)

Shapes ==
    [ null |-> JNull,
      false |-> JBool(FALSE),
      zero |-> JNum(<<"0">>),
      five |-> JNum(<<"5">>),
      emptyString |-> JStr(<<>>),
      text |-> JStr(<<"a">>),
      escaped |-> JStr(<<"x", "\\n", "y">>),
      fenced |-> JStr(<<"<fence>json", NL, "{", "insights", "}", NL, "<fence>">>),
      fencedBad |-> JStr(<<"<fence>json", NL, "{", "not json", NL, "<fence>">>),
      emptyArray |-> JArr(<<>>),
      oneString |-> JArr(<<JStr(<<"a">>)>>),
      strings |-> JArr(<<JStr(<<"a">>), JStr(<<"b">>)>>),
      nullItem |-> JArr(<<JNull>>),
      objectItem |-> JArr(<<Insights>>),
      emptyObject |-> JObj(<<>>),
      insights |-> Insights,
      conclusion |-> JObj(<<KV("narrative", JStr(<<"n">>)),
                            KV("conclusion", JStr(<<"z">>))>>),
      emptyInsights |-> JObj(<<KV("key_insights", JStr(<<>>)),
                               KV("narrative", JStr(<<"n">>))>>),
      unknownField |-> JObj(<<KV("other", JStr(<<"x">>))>>),
      error |-> JObj(<<KV("error", JStr(<<"e">>))>>),
      errorRaw |-> JObj(<<KV("error", JStr(<<"e">>)),
                          KV("raw_output", JStr(<<"r">>))>>),
      errorInsights |-> JObj(<<KV("error", JStr(<<"e">>)),
                               KV("key_insights", JStr(<<"k">>))>>),
      emptyError |-> JObj(<<KV("error", JStr(<<>>)),
                            KV("key_insights", JStr(<<"k">>))>>),
      emptyRaw |-> JObj(<<KV("error", JStr(<<"e">>)),
                          KV("raw_output", JStr(<<>>))>>) ]

ShapeNames == DOMAIN Shapes

\* Report values whose text holds level-2 headings, by name: "##" is the
\* marker of the heading, " " a space.
Headed ==
    [ heading |-> JStr(<<"##", " ", "T", NL, "b">>),
      headings |-> JStr(<<"b", NL, "##", " ", " ", "T", NL, NL, "##", " ", "U">>),
      midLine |-> JStr(<<"b", " ", "##", " ", "T">>),
      emptyHeading |-> JStr(<<"##", " ", NL, "b">>),
      wrappedHeading |-> JStr(<<"content=", "'", "b", "\\n", "##", " ", "T", "'">>),
      headingItem |-> JArr(<<JStr(<<"##", " ", "T">>)>>),
      rawHeading |-> JObj(<<KV("error", JStr(<<"##", " ", "e">>)),
                            KV("raw_output", JStr(<<"##", " ", "r">>))>>),
      sectionHeading |-> JObj(<<KV("key_insights", JStr(<<"##", " ", "k">>)),
                                KV("conclusion", JStr(<<"z">>))>>),
      dumpHeading |-> JObj(<<KV("other", JStr(<<"##", " ", "x">>))>>) ]

HeadedNames == DOMAIN Headed

ValueOf(shape) == IF shape \in ShapeNames THEN Shapes[shape] ELSE Headed[shape]

\* The stages that report, reviewer being one that AGENT_ORDER does not list,
\* and the fields of the data of a stage, other being one that handleSubmit
\* does not look for.
Agents == {"researcher", "analyst", "report_writer", "reviewer"}
StageFields == {"research_data", "analysis", "report", "other"}

\* The JSON text of an object that holds, under the name of the agent, an
\* object with one field, and the text of one that holds an empty object.
\* the first key of an update payload: a stage, or the name the page gives
\* to the entries of error events
StageKeys == Agents \cup {"error"}

StageText(agent, field, shape) == <<"{", agent, ": {", field, ": ", shape, "}}">>
EmptyStageText(agent) == <<"{", agent, ": {", "}}">>

StagePayload(agent, field, shape) ==
    JObj(<<KV(agent, JObj(<<KV(field, ValueOf(shape))>>))>>)
EmptyStagePayload(agent) == JObj(<<KV(agent, JObj(<<>>))>>)
\* the JSON text of an update whose stage data holds the fields kvs, pairs of
\* a field name and the name of a shape, in this order
RECURSIVE FieldsList(_)
FieldsList(kvs) ==
    IF kvs = <<>> THEN <<>>
    ELSE <<kvs[1][1], ": ", kvs[1][2]>>
             \o (IF Len(kvs) = 1 THEN <<>> ELSE <<", ">> \o FieldsList(Tail(kvs)))
FieldsText(agent, kvs) == <<"{", agent, ": {">> \o FieldsList(kvs) \o <<"}}">>
FieldsPayload(agent, kvs) ==
    JObj(<<KV(agent, JObj([i \in 1..Len(kvs) |-> KV(kvs[i][1], Shapes[kvs[i][2]])]))>>)

\* the fields of such a text, when it is one
FieldsIn(t) == [i \in 1..((Len(t) - 3) \div 4) |-> <<t[4 * i], t[4 * i + 2]>>]
IsFieldsText(t) ==
    /\ Len(t) >= 11 /\ (Len(t) - 3) % 4 = 0
    /\ t[2] \in StageKeys
    /\ \A i \in 1..Len(FieldsIn(t)) :
           /\ FieldsIn(t)[i][1] \in StageFields /\ FieldsIn(t)[i][2] \in ShapeNames
           /\ \A j \in 1..(i - 1) : FieldsIn(t)[j][1] # FieldsIn(t)[i][1]
    /\ t = FieldsText(t[2], FieldsIn(t))

Frame(name, dataText) ==
    <<"event: ", name, NL, "data: ">> \o dataText \o <<NL, NL>>

Malformed == Frame("update", <<"{", "not json">>)

FrameSet ==
    { Frame("update", JSONText("ResearchA")),
      Frame("update", JSONText("ReportR")),
      Frame("error", JSONText("ErrorBoom")),
      Malformed }

RECURSIVE FrameSeqs(_)
FrameSeqs(n) ==
    IF n = 0 THEN {<<>>}
    ELSE LET shorter == FrameSeqs(n - 1)
         IN shorter \cup {Append(fs, f) : fs \in shorter, f \in FrameSet}

\* The response bodies the server may send: up to MaxFrames frames.
Streams == {Concat(fs) : fs \in FrameSeqs(MaxFrames)}

\* Those made of frames whose data is valid JSON.
ValidStreams ==
    {Concat(fs) : fs \in {gs \in FrameSeqs(MaxFrames) :
                              \A i \in 1..Len(gs) : gs[i] # Malformed}}

(***************************************************************************)
(* JSON.parse(dataString): white space around the text is skipped; a text  *)
(* that is not complete is a SyntaxError.                                  *)
(***************************************************************************)
RECURSIVE TrimLeft(_), TrimRight(_)
TrimLeft(s) == IF s # <<>> /\ Head(s) = NL THEN TrimLeft(Tail(s)) ELSE s
TrimRight(s) ==
    IF s # <<>> /\ s[Len(s)] = NL THEN TrimRight(SubSeq(s, 1, Len(s) - 1)) ELSE s

JSONParse(dataString) ==
    LET t == TrimRight(TrimLeft(dataString))
    IN IF Len(t) = 3 /\ t[1] = "{" /\ t[2] \in Bodies /\ t[3] = "}"
       THEN [ok |-> TRUE, value |-> Payload(t[2])]
       ELSE IF /\ Len(t) = 7
               /\ t[1] = "{" /\ t[2] \in StageKeys /\ t[3] = ": {"
               /\ t[4] \in StageFields /\ t[5] = ": "
               /\ t[6] \in ShapeNames \cup HeadedNames
               /\ t[7] = "}}"
       THEN [ok |-> TRUE, value |-> StagePayload(t[2], t[4], t[6])]
       ELSE IF Len(t) = 4 /\ t[2] \in StageKeys /\ t = EmptyStageText(t[2])
       THEN [ok |-> TRUE, value |-> EmptyStagePayload(t[2])]
       ELSE IF IsFieldsText(t)
       THEN [ok |-> TRUE, value |-> FieldsPayload(t[2], FieldsIn(t))]
       ELSE [ok |-> FALSE, value |-> JUndefined]

(***************************************************************************)
(* chunk.split("\n\n").filter(line => line.startsWith("event:"))           *)
(***************************************************************************)
RECURSIVE SplitFrom(_, _, _)
SplitFrom(s, i, cur) ==
    IF i > Len(s) THEN <<cur>>
    ELSE IF i < Len(s) /\ s[i] = NL /\ s[i + 1] = NL
         THEN <<cur>> \o SplitFrom(s, i + 2, <<>>)
         ELSE SplitFrom(s, i + 1, Append(cur, s[i]))

Split(chunk) == SplitFrom(chunk, 1, <<>>)

\* A faulty selection: every segment of the chunk is taken for a frame.
AllSegments(chunk) == Split(chunk)

StartsWithEvent(line) == line # <<>> /\ line[1] = "event: "

EventLines(chunk) == SelectSeq(Split(chunk), StartsWithEvent)

\* line.match(/event: (\w+)/)?.[1]; "" stands for undefined.
Words == {"update", "error"}
EventType(line) ==
    LET hits == {i \in 1..(Len(line) - 1) :
                    line[i] = "event: " /\ line[i + 1] \in Words}
    IN IF hits = {} THEN ""
       ELSE line[(CHOOSE i \in hits : \A j \in hits : i <= j) + 1]

\* line.match(/data: (.*)/s)?.[1]; the empty text stands for undefined too,
\* both being falsy at the one place the result is used.
DataString(line) ==
    LET hits == {i \in 1..Len(line) : line[i] = "data: "}
    IN IF hits = {} THEN <<>>
       ELSE SubSeq(line, (CHOOSE i \in hits : \A j \in hits : i <= j) + 1, Len(line))

(***************************************************************************)
(* upsertOutput: filter out the agent's entry, append, sort by the index   *)
(* in AGENT_ORDER (-1 for an agent that is not listed).  Array.sort is     *)
(* stable.                                                                 *)
(***************************************************************************)
AGENT_ORDER == <<"researcher", "analyst", "report_writer">>

indexOf(agent) ==
    IF \E i \in 1..Len(AGENT_ORDER) : AGENT_ORDER[i] = agent
    THEN (CHOOSE i \in 1..Len(AGENT_ORDER) : AGENT_ORDER[i] = agent) - 1
    ELSE -1

compareAgents(a, b) == indexOf(a.agent) - indexOf(b.agent)

RECURSIVE InsertSorted(_, _), sort(_)
\* x goes after every element that does not compare greater than it
InsertSorted(x, sorted) ==
    IF sorted = <<>> THEN <<x>>
    ELSE IF compareAgents(Head(sorted), x) <= 0
         THEN <<Head(sorted)>> \o InsertSorted(x, Tail(sorted))
         ELSE <<x>> \o sorted

sort(xs) ==
    IF xs = <<>> THEN <<>>
    ELSE InsertSorted(xs[Len(xs)], sort(SubSeq(xs, 1, Len(xs) - 1)))

OtherAgent(out, agent) == out.agent # agent

\* A faulty upsert: the entry the stage already has is not filtered out.
upsertKeepingOld(prev, newOutput) == sort(Append(prev, newOutput))

upsertOutputs(prev, newOutput) ==
    LET filtered == SelectSeq(prev, LAMBDA out : OtherAgent(out, newOutput.agent))
        updated == Append(filtered, newOutput)
    IN sort(updated)

upsertOutput(st, newOutput) ==
    [st EXCEPT !.outputs = upsertOutputs(@, newOutput),
               !.expandedMap = @ \cup {newOutput.agent}]

(***************************************************************************)
(* The body of the for loop over eventLines.  st is the part of the state  *)
(* one chunk's processing writes.                                          *)
(***************************************************************************)
RunState ==
    [outputs |-> outputs, expandedMap |-> expandedMap,
     snackbarOpen |-> snackbarOpen, snackbarMsg |-> snackbarMsg,
     consoleErrors |-> consoleErrors, handed |-> handed]

\* Object.entries(data): throws for null and undefined
EntriesThrows(data) == data.ty \in {"null", "undefined"}
Entries(data) ==
    CASE data.ty = "object" -> data.fields
      [] data.ty = "array" -> [i \in 1..Len(data.items) |-> KV(ToString(i - 1), data.items[i])]
      [] data.ty = "string" -> [i \in 1..Len(data.str) |-> KV(ToString(i - 1), JStr(<<data.str[i]>>))]
      [] OTHER -> <<>>

\* console.error("Failed to parse event data:", e) in the catch block
catch(st) == [st EXCEPT !.consoleErrors = @ + 1]

\* upsertOutput(normalizeOutput(agent, type, rawContent)): an exception of
\* normalizeOutput is caught by the try block around the event.
upsertNormalized(st, agent, type, rawContent) ==
    IF normalizeRaises(type, rawContent) THEN catch(st)
    ELSE upsertOutput(st, normalizeOutput(agent, type, rawContent))

onUpdate(st, data) ==
    IF EntriesThrows(data) \/ Entries(data) = <<>>
    THEN catch(st)    \* TypeError: Object.entries, or destructuring undefined
    ELSE LET agent == Entries(data)[1].k
             agentData == Entries(data)[1].v
         IN IF agentData.ty \in {"null", "undefined"}
            THEN catch(st)    \* TypeError: property of null
            ELSE IF Truthy(Get(agentData, "research_data"))
            THEN upsertNormalized(st, agent, "research_data",
                                  Get(agentData, "research_data"))
            ELSE IF Truthy(Get(agentData, "analysis"))
            THEN upsertNormalized(st, agent, "analysis", Get(agentData, "analysis"))
            ELSE IF Truthy(Get(agentData, "report"))
            THEN upsertNormalized(st, agent, "report", Get(agentData, "report"))
            ELSE st

\* A faulty error branch: the event is recorded but no notification is raised.
onErrorUnnotified(st, data) ==
    IF data.ty \in {"null", "undefined"}
    THEN catch(st)
    ELSE [st EXCEPT !.outputs = Append(@, [agent |-> "error", type |-> "error",
                                           content |-> Get(data, "error").str])]

\* A faulty error branch: the message is not replaced while the notification
\* is open.
onErrorKeepingFirst(st, data) ==
    IF data.ty \in {"null", "undefined"}
    THEN catch(st)
    ELSE [st EXCEPT !.outputs = Append(@, [agent |-> "error", type |-> "error",
                                           content |-> Get(data, "error").str]),
                    !.snackbarMsg = IF st.snackbarOpen THEN @
                                    ELSE Get(data, "error").str,
                    !.snackbarOpen = TRUE]

\* The frames of the model carry a string as the error message.
onError(st, data) ==
    IF data.ty \in {"null", "undefined"}
    THEN catch(st)
    ELSE [st EXCEPT !.outputs = Append(@, [agent |-> "error", type |-> "error",
                                           content |-> Get(data, "error").str]),
                    !.snackbarMsg = Get(data, "error").str,
                    !.snackbarOpen = TRUE]

onEvent(st, eventType, dataString) ==
    LET parsed == JSONParse(dataString)
    IN IF ~parsed.ok THEN catch(st)    \* SyntaxError
       ELSE IF eventType = "update" THEN onUpdate(st, parsed.value)
       ELSE IF eventType = "error" THEN onError(st, parsed.value)
       ELSE st

\* if (eventType && dataString): the line reaches JSON.parse
Handed(line) == EventType(line) # "" /\ DataString(line) # <<>>
HandedPair(line) == [eventType |-> EventType(line), dataString |-> DataString(line)]
MalformedLine(line) == Handed(line) /\ ~JSONParse(DataString(line)).ok

processLine(st, line) ==
    LET eventType == EventType(line)
        dataString == DataString(line)
    IN IF eventType # "" /\ dataString # <<>>
       THEN onEvent([st EXCEPT !.handed = Append(@, [eventType |-> eventType,
                                                     dataString |-> dataString])],
                    eventType, dataString)
       ELSE st

\* A faulty loop: the try block around the loop instead of inside it, so that
\* the first malformed line ends the processing of the chunk.
RECURSIVE tryAroundLoop(_, _)
tryAroundLoop(st, lines) ==
    IF lines = <<>> THEN st
    ELSE IF MalformedLine(Head(lines)) THEN processLine(st, Head(lines))
    ELSE tryAroundLoop(processLine(st, Head(lines)), Tail(lines))

RECURSIVE forEachLine(_, _)
forEachLine(st, lines) ==
    IF lines = <<>> THEN st
    ELSE forEachLine(processLine(st, Head(lines)), Tail(lines))

processChunk(st, chunk) == forEachLine(st, EventLines(chunk))

(***************************************************************************)
(* TextDecoder, of UTF-8 with the default options (the byte order mark is  *)
(* dropped, a malformed sequence gives the replacement character U+FFFD).  *)
(* Bytes and code points are numbers.  The decoder keeps, between the      *)
(* bytes of a character, how many bytes the character still needs, the     *)
(* bits it has, and the range the next byte must be in; between two calls  *)
(* it keeps all that when the earlier call was made with stream: true,     *)
(* and starts afresh when it was not.                                      *)
(***************************************************************************)
Replacement == 65533

NewDecoder ==
    [needed |-> 0, codePoint |-> 0, lower |-> 128, upper |-> 191,
     bomSeen |-> FALSE, doNotFlush |-> FALSE]

\* the decoder between two characters
Rested(dec) == [dec EXCEPT !.needed = 0, !.codePoint = 0, !.lower = 128, !.upper = 191]

\* a code point leaves the decoder: the first one is dropped when it is the
\* byte order mark U+FEFF
Emit(r, cp) ==
    [decoder |-> [r.decoder EXCEPT !.bomSeen = TRUE],
     text |-> IF ~r.decoder.bomSeen /\ cp = 65279 THEN r.text ELSE Append(r.text, cp)]

\* one byte: r is the decoder and the text so far.  again says that the
\* byte that ended a malformed sequence is to be decoded once more.
DecodeByte(r, byte) ==
    LET dec == r.decoder
    IN IF dec.needed = 0
       THEN CASE byte <= 127 -> [Emit(r, byte) EXCEPT !.decoder = Rested(@)] @@ [again |-> FALSE]
              [] byte \in 194..223 ->
                    [r EXCEPT !.decoder.needed = 1, !.decoder.codePoint = byte - 192]
                    @@ [again |-> FALSE]
              [] byte \in 224..239 ->
                    [r EXCEPT !.decoder.needed = 2, !.decoder.codePoint = byte - 224,
                              !.decoder.lower = IF byte = 224 THEN 160 ELSE 128,
                              !.decoder.upper = IF byte = 237 THEN 159 ELSE 191]
                    @@ [again |-> FALSE]
              [] byte \in 240..244 ->
                    [r EXCEPT !.decoder.needed = 3, !.decoder.codePoint = byte - 240,
                              !.decoder.lower = IF byte = 240 THEN 144 ELSE 128,
                              !.decoder.upper = IF byte = 244 THEN 143 ELSE 191]
                    @@ [again |-> FALSE]
              [] OTHER -> Emit(r, Replacement) @@ [again |-> FALSE]
       ELSE IF byte \notin dec.lower..dec.upper
       THEN [Emit(r, Replacement) EXCEPT !.decoder = Rested(@)] @@ [again |-> TRUE]
       ELSE LET cp == dec.codePoint * 64 + (byte - 128)
            IN IF dec.needed = 1
               THEN [Emit(r, cp) EXCEPT !.decoder = Rested(@)] @@ [again |-> FALSE]
               ELSE [r EXCEPT !.decoder.needed = @ - 1, !.decoder.codePoint = cp,
                              !.decoder.lower = 128, !.decoder.upper = 191]
                    @@ [again |-> FALSE]

RECURSIVE DecodeBytes(_, _)
DecodeBytes(r, bytes) ==
    IF bytes = <<>> THEN r
    ELSE LET next == DecodeByte(r, Head(bytes))
             now == [decoder |-> next.decoder, text |-> next.text]
         IN DecodeBytes(now, IF next.again THEN bytes ELSE Tail(bytes))

\* decoder.decode(bytes, {stream}): the decoder afterwards and the text
\* returned.  Without stream the call ends the input: a character that
\* lacks bytes gives the replacement character.
decode(dec, bytes, stream) ==
    LET start == IF dec.doNotFlush THEN dec ELSE NewDecoder
        r == DecodeBytes([decoder |-> [start EXCEPT !.doNotFlush = stream],
                          text |-> <<>>], bytes)
    IN IF stream \/ r.decoder.needed = 0 THEN r
       ELSE [Emit(r, Replacement) EXCEPT !.decoder = Rested(@)]

\* A faulty call: without the stream option.
decodeWhole(dec, value) == decode(dec, value, FALSE)

\* decoder.decode(value, { stream: true })
decodeChunk(dec, value) == decode(dec, value, TRUE)

(***************************************************************************)
(* State and actions                                                       *)
(***************************************************************************)
Tasks == {"", "q"}

Init ==
    /\ isLoading = FALSE
    /\ outputs = <<>>
    /\ expandedMap = {}
    /\ snackbarOpen = FALSE
    /\ snackbarMsg = <<>>
    /\ consoleErrors = 0
    /\ pc = "idle"
    /\ wire = <<>>
    /\ pos = 0
    /\ handed = <<>>
    /\ decoder = NewDecoder
    /\ decoded = <<>>
    /\ splits = 0

\* A faulty submission: the form submits while a stream is loading.
SubmitWhileLoading(task) ==
    /\ task # ""
    /\ isLoading' = TRUE
    /\ outputs' = <<>>
    /\ expandedMap' = {}
    /\ pc' = "fetching"
    /\ wire' = <<>>
    /\ pos' = 0
    /\ handed' = <<>>
    /\ consoleErrors' = 0
    /\ decoder' = NewDecoder
    /\ decoded' = <<>>
    /\ splits' = 0
    /\ UNCHANGED <<snackbarOpen, snackbarMsg>>

\* A faulty submission: the outputs are not cleared.
SubmitKeepingOutputs(task) ==
    /\ ~(isLoading \/ task = "")
    /\ isLoading' = TRUE
    /\ expandedMap' = {}
    /\ pc' = "fetching"
    /\ wire' = <<>>
    /\ pos' = 0
    /\ handed' = <<>>
    /\ consoleErrors' = 0
    /\ decoder' = NewDecoder
    /\ decoded' = <<>>
    /\ splits' = 0
    /\ UNCHANGED <<outputs, snackbarOpen, snackbarMsg>>

\* The submit button is enabled (disabled={isLoading || !task}, where task is
\* what the description field holds at that moment; the field can be edited
\* at any time, so its content is an input of the submission);
\* handleSubmit runs up to the await of fetch.
Submit(task) ==
    /\ ~(isLoading \/ task = "")
    /\ isLoading' = TRUE
    /\ outputs' = <<>>
    /\ expandedMap' = {}
    /\ pc' = "fetching"
    /\ wire' = <<>>
    /\ pos' = 0
    /\ handed' = <<>>
    /\ consoleErrors' = 0
    /\ decoder' = NewDecoder
    /\ decoded' = <<>>
    /\ splits' = 0
    /\ UNCHANGED <<snackbarOpen, snackbarMsg>>

\* fetch rejects: the exception leaves handleSubmit, which has no handler.
FetchRejects ==
    /\ pc = "fetching"
    /\ pc' = "rejected"
    /\ UNCHANGED <<isLoading, outputs, expandedMap, snackbarOpen, snackbarMsg,
                   consoleErrors, wire, pos, handed>>
    /\ UNCHANGED decoding

\* if (!response.body) return;
FetchNoBody ==
    /\ pc = "fetching"
    /\ pc' = "noBody"
    /\ UNCHANGED <<isLoading, outputs, expandedMap, snackbarOpen, snackbarMsg,
                   consoleErrors, wire, pos, handed>>
    /\ UNCHANGED decoding

FetchResponds(w) ==
    /\ pc = "fetching"
    /\ pc' = "reading"
    /\ wire' = w
    /\ pos' = 0
    /\ UNCHANGED <<isLoading, outputs, expandedMap, snackbarOpen, snackbarMsg,
                   consoleErrors, handed>>
    /\ UNCHANGED decoding

\* reader.read() delivers the next k lexemes; the chunk is processed whole.
ReadChunk(k) ==
    /\ pc = "reading"
    /\ pos + k <= Len(wire)
    /\ LET st == processChunk(RunState, SubSeq(wire, pos + 1, pos + k))
       IN /\ outputs' = st.outputs
          /\ expandedMap' = st.expandedMap
          /\ snackbarOpen' = st.snackbarOpen
          /\ snackbarMsg' = st.snackbarMsg
          /\ consoleErrors' = st.consoleErrors
          /\ handed' = st.handed
    /\ pos' = pos + k
    /\ UNCHANGED <<isLoading, pc, wire>>
    /\ UNCHANGED decoding

\* reader.read() reports done: the loop ends.
ReadDone ==
    /\ pc = "reading"
    /\ pos = Len(wire)
    /\ isLoading' = FALSE
    /\ expandedMap' = expandedMap \cup {"report_writer"}
    /\ pc' = "done"
    /\ UNCHANGED <<outputs, snackbarOpen, snackbarMsg, consoleErrors, wire,
                   pos, handed>>
    /\ UNCHANGED decoding

\* reader.read() rejects: the exception leaves handleSubmit.
ReadFails ==
    /\ pc = "reading"
    /\ pc' = "readFailed"
    /\ UNCHANGED <<isLoading, outputs, expandedMap, snackbarOpen, snackbarMsg,
                   consoleErrors, wire, pos, handed>>
    /\ UNCHANGED decoding

\* Snackbar onClose (autoHideDuration or the user)
CloseSnackbar ==
    /\ snackbarOpen
    /\ snackbarOpen' = FALSE
    /\ UNCHANGED <<isLoading, outputs, expandedMap, snackbarMsg,
                   consoleErrors, pc, wire, pos, handed>>
    /\ UNCHANGED decoding

Next ==
    \/ \E t \in Tasks : Submit(t)
    \/ FetchRejects
    \/ FetchNoBody
    \/ \E w \in Streams : FetchResponds(w)
    \/ \E k \in 1..(Len(wire) - pos) : ReadChunk(k)
    \/ ReadDone
    \/ ReadFails
    \/ CloseSnackbar

Spec == Init /\ [][Next]_vars

(***************************************************************************)
(* The same program when the server sends one frame: an update whose stage *)
(* data holds one field with a value of any shape, or no field at all, or  *)
(* an error event.                                                         *)
(***************************************************************************)
AgentOf(field) ==
    CASE field = "analysis" -> "analyst"
      [] field = "report" -> "report_writer"
      [] OTHER -> "researcher"

ShapeStreams ==
    {Frame("update", StageText(AgentOf(f), f, s)) : f \in StageFields, s \in ShapeNames}
    \cup {Frame("update", EmptyStageText("researcher")),
          Frame("error", JSONText("ErrorBoom"))}

NextShapes ==
    \/ \E t \in Tasks : Submit(t)
    \/ FetchRejects
    \/ FetchNoBody
    \/ \E w \in ShapeStreams : FetchResponds(w)
    \/ \E k \in 1..(Len(wire) - pos) : ReadChunk(k)
    \/ ReadDone
    \/ ReadFails
    \/ CloseSnackbar

ShapeSpec == Init /\ [][NextShapes]_vars

(***************************************************************************)
(* The same program when the server flushes every frame on its own, so     *)
(* that each chunk holds one frame, and sends up to MaxEvents frames, and  *)
(* when documents are added while the page is open.  The body is not fixed *)
(* in advance: wire stays empty and the frames are inputs of the reads.    *)
(***************************************************************************)
StoreFrames ==
    { Frame("update", StageText("researcher", "research_data", "strings")),
      Frame("update", StageText("researcher", "research_data", "text")),
      Frame("update", StageText("report_writer", "report", "text")),
      Frame("update", StageText("reviewer", "analysis", "text")),
      Frame("error", JSONText("ErrorBoom")),
      Frame("error", JSONText("ErrorBang")),
      Malformed }

\* reader.read() delivers a chunk that holds the frame f
ReadFrame(f) ==
    /\ pc = "reading"
    /\ Len(handed) < MaxEvents
    /\ LET st == processChunk(RunState, f)
       IN /\ outputs' = st.outputs
          /\ expandedMap' = st.expandedMap
          /\ snackbarOpen' = st.snackbarOpen
          /\ snackbarMsg' = st.snackbarMsg
          /\ consoleErrors' = st.consoleErrors
          /\ handed' = st.handed
    /\ UNCHANGED <<isLoading, pc, wire, pos>>
    /\ UNCHANGED decoding

\* The messages handleAddDocument shows: result.message of the server, and
\* the one of the catch block.
DocMessages == {<<"Documents added">>, <<"Upload failed.">>}

\* handleAddDocument, from the response (or the failure) of its request on:
\* the status line it also writes is not part of the model.
AddDocument(msg) ==
    /\ snackbarMsg' = msg
    /\ snackbarOpen' = TRUE
    /\ UNCHANGED <<isLoading, outputs, expandedMap, consoleErrors, pc, wire,
                   pos, handed>>
    /\ UNCHANGED decoding

NextStore ==
    \/ \E t \in Tasks : Submit(t)
    \/ FetchRejects
    \/ FetchNoBody
    \/ FetchResponds(<<>>)
    \/ \E f \in StoreFrames : ReadFrame(f)
    \/ ReadDone
    \/ ReadFails
    \/ CloseSnackbar
    \/ \E msg \in DocMessages : AddDocument(msg)

StoreSpec == Init /\ [][NextStore]_vars

(***************************************************************************)
(* The same program seen at the bytes of the body: the server sends the    *)
(* UTF-8 bytes of up to MaxChars characters, of one to four bytes each,    *)
(* the reader delivers them in chunks cut anywhere, and each chunk goes    *)
(* through the decoder.  What the loop makes of the text is left out here; *)
(* in the other specifications the body is text cut between characters,    *)
(* which leaves the decoder as it was made.                                *)
(***************************************************************************)
\* the UTF-8 bytes of A, e with acute accent, the euro sign, an emoji and
\* the byte order mark, and their code points
Chars ==
    { [bytes |-> <<65>>, codePoint |-> 65],
      [bytes |-> <<195, 169>>, codePoint |-> 233],
      [bytes |-> <<226, 130, 172>>, codePoint |-> 8364],
      [bytes |-> <<240, 159, 152, 128>>, codePoint |-> 128512],
      [bytes |-> <<239, 187, 191>>, codePoint |-> 65279] }

RECURSIVE CharSeqs(_)
CharSeqs(n) ==
    IF n = 0 THEN {<<>>}
    ELSE LET shorter == CharSeqs(n - 1)
         IN shorter \cup {Append(cs, c) : cs \in shorter, c \in Chars}

BytesOf(cs) == Concat([i \in 1..Len(cs) |-> cs[i].bytes])
ByteStreams == {BytesOf(cs) : cs \in CharSeqs(MaxChars)}

\* the response arrives; the decoder is the one made for this invocation
FetchBytes(b) ==
    /\ pc = "fetching"
    /\ pc' = "reading"
    /\ wire' = b
    /\ pos' = 0
    /\ UNCHANGED <<isLoading, outputs, expandedMap, snackbarOpen, snackbarMsg,
                   consoleErrors, handed>>
    /\ UNCHANGED decoding

\* reader.read() delivers the next k bytes, which are decoded
DecodeChunk(k) ==
    /\ pc = "reading"
    /\ pos + k <= Len(wire)
    /\ LET r == decodeChunk(decoder, SubSeq(wire, pos + 1, pos + k))
       IN /\ decoder' = r.decoder
          /\ decoded' = decoded \o r.text
          /\ splits' = IF r.decoder.needed > 0 THEN splits + 1 ELSE splits
    /\ pos' = pos + k
    /\ UNCHANGED <<isLoading, outputs, expandedMap, snackbarOpen, snackbarMsg,
                   consoleErrors, pc, wire, handed>>

NextDecode ==
    \/ \E t \in Tasks : Submit(t)
    \/ FetchRejects
    \/ FetchNoBody
    \/ \E b \in ByteStreams : FetchBytes(b)
    \/ \E k \in 1..(Len(wire) - pos) : DecodeChunk(k)
    \/ ReadDone
    \/ ReadFails

DecodeSpec == Init /\ [][NextDecode]_vars

TypeOK ==
    /\ isLoading \in BOOLEAN
    /\ snackbarOpen \in BOOLEAN
    /\ pc \in {"idle", "fetching", "reading", "done", "noBody", "rejected", "readFailed"}
    /\ pos \in 0..Len(wire)
    /\ pc \in {"fetching", "reading"} => isLoading

(***************************************************************************)
(* Notions the properties below are stated with.                           *)
(***************************************************************************)
EmptyRun ==
    [outputs |-> <<>>, expandedMap |-> {}, snackbarOpen |-> FALSE,
     snackbarMsg |-> <<>>, consoleErrors |-> 0, handed |-> <<>>]

\* a step of the read loop that processes one chunk, and the chunk it processes
ChunkStep == pc = "reading" /\ pos' > pos
StepLines == EventLines(SubSeq(wire, pos + 1, pos'))

WellFormed(line) == Handed(line) /\ JSONParse(DataString(line)).ok
IsMalformedPair(h) == ~JSONParse(h.dataString).ok
IsErrorEvent(line) == WellFormed(line) /\ EventType(line) = "error"
IsUpdateEvent(line) == WellFormed(line) /\ EventType(line) = "update"
Message(line) == Get(JSONParse(DataString(line)).value, "error").str
UpdatedAgent(line) == JSONParse(DataString(line)).value.fields[1].k

HasEntry(outs, agent) == \E n \in 1..Len(outs) : outs[n].agent = agent

\* rank of a stage in the display order: the ranked stages, then anything else
Rank(agent) == IF indexOf(agent) >= 0 THEN indexOf(agent) ELSE Len(AGENT_ORDER)

Terminated == pc \in {"done", "noBody", "rejected", "readFailed"}

(***************************************************************************)
(* C1.  Chunking is transparent: when a stream of valid frames has ended,  *)
(* the frames the read loop handed to the event parser are the frames it   *)
(* hands over when the whole stream arrives as one chunk.                  *)
(***************************************************************************)
ChunkingTransparent ==
    (pc = "done" /\ wire \in ValidStreams)
        => handed = processChunk(EmptyRun, wire).handed

(***************************************************************************)
(* C2.  In every state the outputs are sorted by ascending stage rank,     *)
(* the error entries after all ranked stages.                              *)
(***************************************************************************)
OutputsRankSorted ==
    \A i, j \in 1..Len(outputs) :
        i < j => Rank(outputs[i].agent) <= Rank(outputs[j].agent)

(***************************************************************************)
(* C3.  In every state the outputs hold at most one entry per stage, the   *)
(* error stage included.                                                   *)
(***************************************************************************)
OneEntryPerStage ==
    \A i, j \in 1..Len(outputs) :
        outputs[i].agent = outputs[j].agent => i = j

(***************************************************************************)
(* C5.  A line whose data string is not valid JSON changes nothing but     *)
(* the log, to which it is reported once, and the loop goes on: a chunk    *)
(* leaves the outputs and the notification as the same chunk without its   *)
(* malformed lines does, every line of the chunk that has an event name    *)
(* and a data string reaches the parser, the log grows by the number of    *)
(* malformed lines, and the loop keeps reading.                            *)
(***************************************************************************)
SkippingMalformed(st, lines) ==
    LET passed == SelectSeq(lines, Handed)
    IN [forEachLine(st, SelectSeq(lines, LAMBDA l : ~MalformedLine(l)))
            EXCEPT !.consoleErrors = @ + Len(SelectSeq(lines, MalformedLine)),
                   !.handed = st.handed \o [i \in 1..Len(passed) |-> HandedPair(passed[i])]]

MalformedFrameSkipped ==
    [][ChunkStep =>
        \A lines \in {StepLines}, before \in {RunState} :
            RunState' = SkippingMalformed(before, lines) /\ pc' = "reading"]_vars

\* a malformed frame was logged once and the valid frame after it was applied
MalformedThenApplied ==
    /\ Len(handed) = 2
    /\ IsMalformedPair(handed[1])
    /\ ~IsMalformedPair(handed[2])
    /\ consoleErrors = 1
    /\ outputs # <<>>
    /\ pc = "reading"

(***************************************************************************)
(* C6.  When the transport fails (fetch rejects or a read rejects) the     *)
(* controller is no longer loading and the outputs hold an error entry.    *)
(***************************************************************************)
TransportFailureSurfaced ==
    pc \in {"rejected", "readFailed"} => ~isLoading /\ HasEntry(outputs, "error")

(***************************************************************************)
(* C7.  When the response carries no body the controller has left the      *)
(* loading state, with no event processed and no output.                   *)
(***************************************************************************)
NoBodyFailsAtOnce ==
    pc = "noBody" => ~isLoading /\ outputs = <<>> /\ handed = <<>>

(***************************************************************************)
(* C8.  However the transport terminates, the controller has left          *)
(* Streaming once handleSubmit is over: the loading flag is cleared.       *)
(***************************************************************************)
LeavesStreaming == Terminated => ~isLoading

(***************************************************************************)
(* C9.  After a submission and before any chunk of the new stream is       *)
(* processed the outputs are empty.                                        *)
(***************************************************************************)
SubmitResetsOutputs ==
    (pc = "fetching" \/ (pc = "reading" /\ pos = 0)) => outputs = <<>>

\* a task was submitted after one whose stream held an error event, which left
\* its entry in the outputs and its message in the notification
ResubmittedAfterOutputs ==
    pc = "fetching" /\ snackbarMsg # <<>> /\ outputs = <<>>

(***************************************************************************)
(* C10.  An error event is not fatal: the chunk that holds it leaves an    *)
(* error entry with the event's message in the outputs, the notification   *)
(* open, showing the message of the chunk's last error event, the          *)
(* controller loading and reading, and the lines after it processed: each  *)
(* reaches the parser and a later update's stage has an entry.             *)
(***************************************************************************)
ErrorEventsHandled(before, after, lines) ==
    \A i \in 1..Len(lines) :
        IsErrorEvent(lines[i]) =>
            /\ \E n \in 1..Len(after.outputs) :
                   after.outputs[n] = [agent |-> "error", type |-> "error",
                                       content |-> Message(lines[i])]
            /\ after.snackbarOpen
            /\ (\A j \in (i + 1)..Len(lines) : ~IsErrorEvent(lines[j]))
                   => after.snackbarMsg = Message(lines[i])
            /\ \A j \in (i + 1)..Len(lines) :
                   IsUpdateEvent(lines[j])
                       => HasEntry(after.outputs, UpdatedAgent(lines[j]))
            /\ Len(after.handed) = Len(before.handed) + Len(SelectSeq(lines, Handed))

ErrorEventNotFatal ==
    [][ChunkStep =>
        \A lines \in {StepLines}, before \in {RunState}, after \in {RunState'} :
            /\ ErrorEventsHandled(before, after, lines)
            /\ (\E i \in 1..Len(lines) : IsErrorEvent(lines[i]))
                   => isLoading' /\ pc' = "reading"]_vars

\* an error event was recorded and notified, and the update after it applied
ErrorThenUpdateApplied ==
    /\ Len(handed) = 2
    /\ handed[1].eventType = "error" /\ ~IsMalformedPair(handed[1])
    /\ handed[2].eventType = "update" /\ ~IsMalformedPair(handed[2])
    /\ HasEntry(outputs, "error")
    /\ Len(outputs) = 2
    /\ snackbarOpen /\ snackbarMsg = <<"boom">>
    /\ isLoading /\ pc = "reading"

(***************************************************************************)
(* Notions of the properties about single events and their payloads.       *)
(***************************************************************************)
Parsed(h) == JSONParse(h.dataString).value

\* an update event that parsed to an object whose first entry holds the data
\* of a stage, an object
IsStageUpdate(h) ==
    /\ h.eventType = "update"
    /\ JSONParse(h.dataString).ok
    /\ Parsed(h).ty = "object" /\ Parsed(h).fields # <<>>
    /\ Parsed(h).fields[1].v.ty = "object"

StageOf(h) == Parsed(h).fields[1].k
StageData(h) == Parsed(h).fields[1].v

EntriesOf(outs, agent) == SelectSeq(outs, LAMBDA out : out.agent = agent)

(***************************************************************************)
(* C11.  Every update event whose data parses results in one upsert for    *)
(* the stage its payload names: once the event is processed the outputs    *)
(* hold exactly one entry of that stage, whatever the data of the stage    *)
(* holds, no known field or an empty one included.                         *)
(***************************************************************************)
EveryUpdateStored ==
    \A n \in 1..Len(handed) :
        IsStageUpdate(handed[n]) => Len(EntriesOf(outputs, StageOf(handed[n]))) = 1

(***************************************************************************)
(* Notions of the properties about the steps of the read loop in terms of  *)
(* the events they process.                                                *)
(***************************************************************************)
\* a step of the read loop that hands events to the parser, and those events
EventStep == pc = "reading" /\ pc' = "reading" /\ Len(handed') > Len(handed)
NewPairs == SubSeq(handed', Len(handed) + 1, Len(handed'))

\* the field of the data of a stage that handleSubmit passes to the normalizer
Kinds == <<"research_data", "analysis", "report">>
IsNormalized(h) ==
    IsStageUpdate(h) /\ \E i \in 1..Len(Kinds) : Truthy(Get(StageData(h), Kinds[i]))
KindOf(h) ==
    Kinds[CHOOSE i \in 1..Len(Kinds) :
              /\ Truthy(Get(StageData(h), Kinds[i]))
              /\ \A j \in 1..(i - 1) : ~Truthy(Get(StageData(h), Kinds[j]))]
RawContent(h) == Get(StageData(h), KindOf(h))

Known(agent) == \E i \in 1..Len(AGENT_ORDER) : AGENT_ORDER[i] = agent
KnownAgents(outs) ==
    LET known == SelectSeq(outs, LAMBDA out : Known(out.agent))
    IN [i \in 1..Len(known) |-> known[i].agent]

(***************************************************************************)
(* C12.  An upsert for a stage that is none of researcher, analyst and     *)
(* report_writer does not fail and places the entry after all entries of   *)
(* the known stages, whose relative order it leaves as it was.             *)
(***************************************************************************)
UnknownStagePlacedLast ==
    [][EventStep =>
        \A i \in 1..Len(NewPairs) :
            (IsNormalized(NewPairs[i]) /\ ~Known(StageOf(NewPairs[i]))) =>
                /\ consoleErrors' = consoleErrors
                /\ Len(EntriesOf(outputs', StageOf(NewPairs[i]))) = 1
                /\ \A m, n \in 1..Len(outputs') :
                       (outputs'[m].agent = StageOf(NewPairs[i])
                            /\ Known(outputs'[n].agent)) => n < m
                /\ KnownAgents(outputs') = KnownAgents(outputs)]_vars

(***************************************************************************)
(* C13.  Upsert is idempotent: in every state, applying an upsert to the   *)
(* outputs twice in a row gives the list (same entries, same order) that   *)
(* applying it once gives, whatever the AgentOutput.                       *)
(***************************************************************************)
AgentOutputs ==
    [agent : Agents \cup {"error"},
     type : {"research_data", "analysis", "report"},
     content : {<<>>, <<"a">>}]

UpsertIdempotent ==
    \A newOutput \in AgentOutputs :
        upsertOutputs(upsertOutputs(outputs, newOutput), newOutput)
            = upsertOutputs(outputs, newOutput)

\* the same update event was applied twice in a row, to outputs that held
\* entries of other stages, an error entry included
SameUpdateTwice ==
    /\ Len(handed) = 3
    /\ handed[1].eventType = "error"
    /\ IsNormalized(handed[2]) /\ handed[3] = handed[2]
    /\ Len(outputs) = 2
    /\ outputs = upsertOutputs(outputs, outputs[2])

(***************************************************************************)
(* C14.  Between two submissions the outputs persist and the notification  *)
(* shows the most recent message only.                                     *)
(*                                                                         *)
(* Persistence: in every step but a submission, a stage that has an entry  *)
(* in the outputs still has one after the step.                            *)
(* Notification, as claimed: the message changes only in a step that       *)
(* processes error events, and such a step leaves the notification open    *)
(* with the message of the last of them.                                   *)
(* Notification, as the program has it: the message changes also when a    *)
(* document has been added, to the message of that.                        *)
(***************************************************************************)
IsSubmission == pc' = "fetching" /\ pc # "fetching"

IsErrorPair(h) == h.eventType = "error" /\ JSONParse(h.dataString).ok
ErrorPairs(hs) == SelectSeq(hs, IsErrorPair)
LastMessage(hs) == Get(Parsed(ErrorPairs(hs)[Len(ErrorPairs(hs))]), "error").str

\* the step processes events, error events among them
ErrorStep == EventStep /\ ErrorPairs(NewPairs) # <<>>

EntriesPersist ==
    ~IsSubmission =>
        \A agent \in Agents \cup {"error"} :
            HasEntry(outputs, agent) => HasEntry(outputs', agent)

LastErrorShown ==
    ErrorStep => snackbarOpen' /\ snackbarMsg' = LastMessage(NewPairs)

OutputsPersistErrorNotified ==
    [][/\ EntriesPersist
       /\ LastErrorShown
       /\ snackbarMsg' # snackbarMsg => ErrorStep]_vars

OutputsPersistLastNotified ==
    [][/\ EntriesPersist
       /\ LastErrorShown
       /\ snackbarMsg' # snackbarMsg =>
              \/ ErrorStep
              \/ snackbarOpen' /\ snackbarMsg' \in DocMessages /\ handed' = handed]_vars

\* the entry of a stage was kept through two error events and the end of the
\* stream, and the notification shows the message of the second error event,
\* not that of the first
KeptToTheEnd ==
    /\ pc = "done"
    /\ Len(handed) = 3
    /\ IsNormalized(handed[1])
    /\ IsErrorPair(handed[2]) /\ IsErrorPair(handed[3])
    /\ Parsed(handed[2]) # Parsed(handed[3])
    /\ HasEntry(outputs, StageOf(handed[1]))
    /\ Len(outputs) = 3
    /\ snackbarOpen /\ snackbarMsg = LastMessage(handed)

(***************************************************************************)
(* Notions of the properties about what the normalizer makes of a payload. *)
(***************************************************************************)
\* the event was processed and its payload passed to the normalizer as kind
NormalizedAs(h, kind) == IsNormalized(h) /\ KindOf(h) = kind

\* the content of the entry of the stage of the event
ContentOf(h) == EntriesOf(outputs, StageOf(h))[1].content

\* The JSON value a string holds in a fenced code block labeled json, as
\* parseJsonCodeBlock (which the program defines and does not call) finds
\* it: the string starts with the opening mark, and the text up to the
\* next mark parses.
FencedJson(s) ==
    LET marks == {j \in 2..Len(s) : s[j] = "<fence>"}
        inner == TrimRight(TrimLeft(
                     SubSeq(s, 2, (CHOOSE j \in marks : \A m \in marks : j <= m) - 1)))
    IN IF s # <<>> /\ s[1] = "<fence>json" /\ marks # {}
          /\ Len(inner) = 3 /\ inner[1] = "{" /\ inner[2] \in ShapeNames
          /\ inner[3] = "}"
       THEN [ok |-> TRUE, value |-> Shapes[inner[2]]]
       ELSE [ok |-> FALSE, value |-> JUndefined]

IsFenced(v) == v.ty = "string" /\ v.str # <<>> /\ v.str[1] = "<fence>json"

\* a label, bare or marked as bold text or as a heading, with or without a
\* colon
Labelled(name) ==
    {name, "**" \o name \o "**", "## " \o name,
     name \o ":", "**" \o name \o ":**", "**" \o name \o ":** "}

\* text without its line breaks
Unbroken(s) == SelectSeq(s, LAMBDA c : c # NL)

\* the text is the sections named names, in that order: each a label and
\* the value of the field of item the section is for
RECURSIVE IsSections(_, _, _, _)
IsSections(s, item, keys, names) ==
    IF keys = <<>> THEN s = <<>>
    ELSE LET value == String(Get(item, Head(keys)))
         IN /\ Len(s) >= 1 + Len(value)
            /\ s[1] \in Labelled(Head(names))
            /\ SubSeq(s, 2, 1 + Len(value)) = value
            /\ IsSections(SubSeq(s, 2 + Len(value), Len(s)), item,
                          Tail(keys), Tail(names))

(***************************************************************************)
(* C15.  An analysis payload that is a string with a fenced code block     *)
(* labeled json whose content parses as an object is normalized to three   *)
(* labeled sections, Key Insights, Comparative Analysis and Narrative in   *)
(* that order, each followed by the value of its field; when the content   *)
(* of the block does not parse the result is the raw string.               *)
(***************************************************************************)
FencedAnalysisSectioned ==
    \A n \in 1..Len(handed) :
        (NormalizedAs(handed[n], "analysis") /\ IsFenced(RawContent(handed[n]))) =>
            LET raw == RawContent(handed[n]).str
            IN IF FencedJson(raw).ok /\ FencedJson(raw).value.ty = "object"
               THEN IsSections(Unbroken(ContentOf(handed[n])), FencedJson(raw).value,
                               <<"key_insights", "comparative_analysis", "narrative">>,
                               <<"Key Insights", "Comparative Analysis", "Narrative">>)
               ELSE ContentOf(handed[n]) = raw

(***************************************************************************)
(* The sections of a structured object: one for each of the four fields    *)
(* that is present, in this order.                                         *)
(***************************************************************************)
SectionFields ==
    <<[key |-> "key_insights", name |-> "Key Insights"],
      [key |-> "comparative_analysis", name |-> "Comparative Analysis"],
      [key |-> "narrative", name |-> "Narrative"],
      [key |-> "conclusion", name |-> "Conclusion"]>>

Keys(fs) == [i \in 1..Len(fs) |-> fs[i].key]
Names(fs) == [i \in 1..Len(fs) |-> fs[i].name]

\* the object has the field
Has(item, key) == Get(item, key).ty # "undefined"
\* the object has the field, with a value that is not empty: not the empty
\* string, null, false or 0
HasValue(item, key) == Truthy(Get(item, key))

PresentSections(item) == SelectSeq(SectionFields, LAMBDA f : Has(item, f.key))
FilledSections(item) == SelectSeq(SectionFields, LAMBDA f : HasValue(item, f.key))

\* the text is the labeled sections fs of item, or the pretty-printed JSON
\* text of item when there is none
IsSectionsOrDump(s, item, fs) ==
    IF fs = <<>> THEN s = Stringify(item, <<>>)
    ELSE IsSections(Unbroken(s), item, Keys(fs), Names(fs))

(***************************************************************************)
(* C16.  An analysis payload that is a structured object is normalized to  *)
(* one labeled section for each field present among key_insights,          *)
(* comparative_analysis, narrative and conclusion, in that order, and to   *)
(* the pretty-printed JSON text of the object when none is present.        *)
(***************************************************************************)
ObjectAnalysisSectioned ==
    \A n \in 1..Len(handed) :
        (NormalizedAs(handed[n], "analysis") /\ RawContent(handed[n]).ty = "object") =>
            IsSectionsOrDump(ContentOf(handed[n]), RawContent(handed[n]),
                             PresentSections(RawContent(handed[n])))

(***************************************************************************)
(* C17.  A report payload that is a structured object with an error field  *)
(* is normalized to an Error label and the error text, followed by a Raw   *)
(* Output label and the raw output exactly when raw_output is present,     *)
(* whatever section fields it has; one without an error field to the       *)
(* labeled sections of its present fields, or to its pretty-printed JSON   *)
(* text when it has none.                                                  *)
(*                                                                         *)
(* As claimed, a field is present when the object has it; as the program   *)
(* has it, when the object has it with a value that is not empty.          *)
(***************************************************************************)
ErrorFields(item, has(_, _)) ==
    <<[key |-> "error", name |-> "Error"]>>
    \o (IF has(item, "raw_output")
        THEN <<[key |-> "raw_output", name |-> "Raw Output"]>> ELSE <<>>)

ReportRendered(s, item, has(_, _)) ==
    IF has(item, "error")
    THEN IsSections(Unbroken(s), item, Keys(ErrorFields(item, has)),
                    Names(ErrorFields(item, has)))
    ELSE IsSectionsOrDump(s, item, SelectSeq(SectionFields, LAMBDA f : has(item, f.key)))

IsObjectReport(h) == NormalizedAs(h, "report") /\ RawContent(h).ty = "object"

ObjectReportRenderedIfPresent ==
    \A n \in 1..Len(handed) :
        IsObjectReport(handed[n]) =>
            ReportRendered(ContentOf(handed[n]), RawContent(handed[n]), Has)

ObjectReportRenderedIfFilled ==
    \A n \in 1..Len(handed) :
        IsObjectReport(handed[n]) =>
            ReportRendered(ContentOf(handed[n]), RawContent(handed[n]), HasValue)

\* a report with an error, a raw output and a section field was rendered as
\* an error with its raw output
ErrorReportRendered ==
    \E n \in 1..Len(handed) :
        /\ IsObjectReport(handed[n])
        /\ HasValue(RawContent(handed[n]), "error")
        /\ HasValue(RawContent(handed[n]), "raw_output")
        /\ Len(ContentOf(handed[n])) > 4

(***************************************************************************)
(* C18.  A research_data payload that is a sequence of strings is          *)
(* normalized to its elements with a blank line (two newlines) between     *)
(* each two, the sequence of a and b to a, newline, newline, b; one that   *)
(* is no sequence to the raw value as a string.  This holds of the entry   *)
(* an update event leaves, and of the normalizer on every shape of value.  *)
(***************************************************************************)
IsStrings(v) ==
    v.ty = "array" /\ \A i \in 1..Len(v.items) : v.items[i].ty = "string"

\* the strings with two newlines between each two
Spaced(items) ==
    Concat([i \in 1..(2 * Len(items) - 1) |->
               IF i % 2 = 1 THEN items[(i + 1) \div 2].str ELSE <<NL, NL>>])

IsResearchContent(s, v) ==
    /\ IsStrings(v) => s = Spaced(v.items)
    /\ v.ty # "array" => s = String(v)
    /\ v = Shapes.strings => s = <<"a", NL, NL, "b">>

ResearchDataJoined ==
    /\ \A n \in 1..Len(handed) :
           NormalizedAs(handed[n], "research_data") =>
               IsResearchContent(ContentOf(handed[n]), RawContent(handed[n]))
    /\ pc = "done" =>
           \A name \in ShapeNames :
               IsResearchContent(
                   normalizeOutput("researcher", "research_data", Shapes[name]).content,
                   Shapes[name])

\* the update with the sequence of a and b left a, a blank line, b
ResearchPairJoined ==
    \E n \in 1..Len(handed) :
        /\ NormalizedAs(handed[n], "research_data")
        /\ RawContent(handed[n]) = JArr(<<JStr(<<"a">>), JStr(<<"b">>)>>)
        /\ ContentOf(handed[n]) = <<"a", NL, NL, "b">>

(***************************************************************************)
(* C19.  The normalizer is total.  A step of the read loop that processes  *)
(* an update whose payload goes to the normalizer leaves an entry of the   *)
(* stage whose content is a string, reports nothing but the malformed      *)
(* lines of the chunk, adds no error entry but those of the error events   *)
(* of the chunk, and leaves the loop reading; and for each of the three    *)
(* kinds and every shape of value normalizeOutput raises nothing and       *)
(* returns a string as content.                                            *)
(***************************************************************************)
IsText(s) == DOMAIN s = 1..Len(s) /\ \A i \in 1..Len(s) : s[i] \in STRING

NormalizedKept(pair) ==
    IsNormalized(pair) =>
        /\ Len(EntriesOf(outputs', StageOf(pair))) = 1
        /\ IsText(EntriesOf(outputs', StageOf(pair))[1].content)
        /\ consoleErrors' = consoleErrors + Len(SelectSeq(NewPairs, IsMalformedPair))
        /\ Len(EntriesOf(outputs', "error"))
               = Len(EntriesOf(outputs, "error")) + Len(ErrorPairs(NewPairs))
        /\ pc' = "reading" /\ isLoading'

TotalOnShapes ==
    \A i \in 1..Len(Kinds), name \in ShapeNames :
        /\ ~normalizeRaises(Kinds[i], Shapes[name])
        /\ IsText(normalizeOutput("researcher", Kinds[i], Shapes[name]).content)

CharsOf(bytes) == CHOOSE cs \in CharSeqs(MaxChars) : BytesOf(cs) = bytes

CodePoints(cs) ==
    LET all == [i \in 1..Len(cs) |-> cs[i].codePoint]
    IN IF all # <<>> /\ all[1] = 65279 THEN Tail(all) ELSE all

DecodingStateful ==
    /\ \A i \in 1..Len(decoded) : decoded[i] # Replacement
    /\ (pc \in {"reading", "done"} /\ pos = Len(wire)) =>
           /\ decoded = decode(NewDecoder, wire, FALSE).text
           /\ decoded = CodePoints(CharsOf(wire))

\* a stream of three characters was decoded to the end, two of its chunks
\* having ended inside a character
SplitCharactersDecoded ==
    pc = "done" /\ Len(decoded) = 3 /\ splits = 2

(***************************************************************************)
(* The same program when the server groups the frames it flushes: every    *)
(* chunk holds up to MaxGroup whole frames, and the stream up to MaxEvents *)
(* frames.  Some updates of a stage carry a field that is present and      *)
(* empty, and one is keyed by the name error events are stored under.      *)
(***************************************************************************)
MaxGroup == 2

OrderFrames ==
    { Frame("update", StageText("researcher", "research_data", "strings")),
      Frame("update", StageText("researcher", "research_data", "text")),
      Frame("update", StageText("researcher", "research_data", "emptyString")),
      Frame("update", StageText("report_writer", "report", "text")),
      Frame("update", StageText("error", "report", "text")),
      Frame("error", JSONText("ErrorBoom")) }

FrameGroups == UNION { [1..n -> OrderFrames] : n \in 1..MaxGroup }

RECURSIVE Flatten(_)
Flatten(fs) == IF fs = <<>> THEN <<>> ELSE Head(fs) \o Flatten(Tail(fs))

\* reader.read() delivers a chunk that holds the frames fs, one after another
ReadFrames(fs) ==
    /\ pc = "reading"
    /\ Len(handed) + Len(fs) <= MaxEvents
    /\ LET st == processChunk(RunState, Flatten(fs))
       IN /\ outputs' = st.outputs
          /\ expandedMap' = st.expandedMap
          /\ snackbarOpen' = st.snackbarOpen
          /\ snackbarMsg' = st.snackbarMsg
          /\ consoleErrors' = st.consoleErrors
          /\ handed' = st.handed
    /\ UNCHANGED <<isLoading, pc, wire, pos>>
    /\ UNCHANGED decoding

NextOrder ==
    \/ \E t \in Tasks : Submit(t)
    \/ FetchRejects
    \/ FetchNoBody
    \/ FetchResponds(<<>>)
    \/ \E fs \in FrameGroups : ReadFrames(fs)
    \/ ReadDone
    \/ ReadFails
    \/ CloseSnackbar

OrderSpec == Init /\ [][NextOrder]_vars

\* an update event whose stage data has one of the fields handleSubmit looks
\* for, and the first of them
HasKind(h) == IsStageUpdate(h) /\ \E i \in 1..Len(Kinds) : Has(StageData(h), Kinds[i])
PresentKind(h) ==
    Kinds[CHOOSE i \in 1..Len(Kinds) :
              /\ Has(StageData(h), Kinds[i])
              /\ \A j \in 1..(i - 1) : ~Has(StageData(h), Kinds[j])]

\* the update events of the stage received so far, in wire order
UpdatesOf(agent) ==
    SelectSeq(handed, LAMBDA h : HasKind(h) /\ StageOf(h) = agent)

Last(s) == s[Len(s)]

(***************************************************************************)
(* C21.  Last write wins: whenever update events of a stage have been      *)
(* received in the stream, in chunks of whole frames grouped in any way,   *)
(* the outputs hold one entry of the stage, and it is the normalization of *)
(* the last of these events.                                               *)
(***************************************************************************)
LastWriteWins ==
    \A agent \in Agents :
        \A ups \in {UpdatesOf(agent)} :
            ups # <<>> =>
                EntriesOf(outputs, agent)
                    = <<normalizeOutput(agent, PresentKind(Last(ups)),
                                        Get(StageData(Last(ups)),
                                            PresentKind(Last(ups))))>>

\* handleSubmit is running: it awaits fetch, or it is in its read loop
Streaming == pc \in {"fetching", "reading"}

(***************************************************************************)
(* C22.  At most one read loop at a time: while handleSubmit awaits fetch  *)
(* or reads the stream the loading flag is set; a task is submitted only   *)
(* while the flag is clear and no stream is being fetched or read, and the *)
(* submission sets the flag; and the flag is cleared only by the read loop *)
(* when it finds the stream at its end.                                    *)
(***************************************************************************)
OneReadLoop ==
    /\ [](Streaming => isLoading)
    /\ [][/\ IsSubmission => (~isLoading /\ ~Streaming /\ isLoading')
          /\ (pc = "reading" /\ pc' # "reading") => pc' # "fetching"
          /\ (isLoading /\ ~isLoading') => (pc = "reading" /\ pc' = "done")]_vars

\* a second stream is being read after the first one, which held an error
\* event, came to its end
SecondStreamAfterFirst ==
    pc = "reading" /\ isLoading /\ handed = <<>> /\ snackbarMsg # <<>>

\* how many entries of the list equal e
Count(outs, e) == Cardinality({n \in 1..Len(outs) : outs[n] = e})

\* the step processes one update event, which reaches the normalizer
IsUpsertStep == EventStep /\ Len(NewPairs) = 1 /\ IsNormalized(NewPairs[1])

(***************************************************************************)
(* C23.  An upsert for stage S changes only S: in a step that processes    *)
(* one update event for S, every entry of another stage is in the outputs  *)
(* afterwards as often as before, with its type and content, and the       *)
(* outputs are one longer if S had no entry and as long as before if it    *)
(* had one.                                                                *)
(***************************************************************************)
UpsertChangesOnlyStage ==
    [][IsUpsertStep =>
        \A S \in {StageOf(NewPairs[1])} :
            /\ \A n \in 1..Len(outputs) :
                   outputs[n].agent # S =>
                       Count(outputs', outputs[n]) = Count(outputs, outputs[n])
            /\ \A n \in 1..Len(outputs') :
                   outputs'[n].agent # S =>
                       Count(outputs', outputs'[n]) = Count(outputs, outputs'[n])
            /\ Len(outputs') = IF HasEntry(outputs, S) THEN Len(outputs)
                               ELSE Len(outputs) + 1]_vars

(***************************************************************************)
(* The same program when the server sends, besides frames, what            *)
(* text/event-stream allows around them: a comment line as a keep-alive,   *)
(* and a frame whose first field is its id.  The body holds up to          *)
(* MaxFrames of these, of report frames and of error frames, and arrives   *)
(* in chunks cut anywhere.                                                 *)
(***************************************************************************)
Ping == <<": ping", NL, NL>>
Identified == <<"id: 1", NL>> \o Frame("update", JSONText("ResearchA"))

SegmentSet ==
    {Ping, Identified, Frame("update", JSONText("ReportR")),
     Frame("error", JSONText("ErrorBoom"))}

RECURSIVE SegmentSeqs(_)
SegmentSeqs(n) ==
    IF n = 0 THEN {<<>>}
    ELSE LET shorter == SegmentSeqs(n - 1)
         IN shorter \cup {Append(fs, f) : fs \in shorter, f \in SegmentSet}

SegmentStreams == {Concat(fs) : fs \in SegmentSeqs(MaxFrames)} \ {<<>>}

NextSegments ==
    \/ \E t \in Tasks : Submit(t)
    \/ FetchRejects
    \/ FetchNoBody
    \/ \E w \in SegmentStreams : FetchResponds(w)
    \/ \E k \in 1..(Len(wire) - pos) : ReadChunk(k)
    \/ ReadDone
    \/ ReadFails
    \/ CloseSnackbar

SegmentSpec == Init /\ [][NextSegments]_vars

\* the segments of the chunk that start with the marker of the event name
Marked(segments) == SelectSeq(segments, StartsWithEvent)

(***************************************************************************)
(* C24.  Only the segments of a chunk that start with the event-name       *)
(* marker are treated as frames: a chunk hands at most one event to the    *)
(* parser, and logs at most one parse failure, for each such segment; and  *)
(* a chunk none of whose segments starts with the marker changes neither   *)
(* the outputs, nor the notification, nor the loading state, hands nothing *)
(* to the parser and logs nothing.                                         *)
(***************************************************************************)
UnmarkedSegmentsDiscarded ==
    [][ChunkStep =>
        \A segments \in {Split(SubSeq(wire, pos + 1, pos'))} :
            /\ Len(handed') - Len(handed) <= Len(Marked(segments))
            /\ consoleErrors' - consoleErrors <= Len(Marked(segments))
            /\ Marked(segments) = <<>> =>
                   UNCHANGED <<outputs, expandedMap, snackbarOpen, snackbarMsg,
                               isLoading, consoleErrors, handed>>]_vars

\* a frame that starts with its id field was read to its end in one chunk or
\* in chunks none of which starts at the event name: nothing was handed over,
\* stored or logged
IdentifiedFrameDiscarded ==
    /\ pc = "reading" /\ wire = Identified /\ pos = Len(wire)
    /\ handed = <<>> /\ outputs = <<>> /\ consoleErrors = 0 /\ isLoading

(***************************************************************************)
(* The same program when the stage data of an update holds several of the  *)
(* fields at once, in any order, some of them empty; each chunk holds one  *)
(* frame, an update or an error event, and the stream up to MaxEvents      *)
(* frames.                                                                 *)
(***************************************************************************)
FieldFrames ==
    { Frame("update", FieldsText("researcher",
                <<<<"research_data", "strings">>, <<"analysis", "text">>>>)),
      Frame("update", FieldsText("analyst",
                <<<<"report", "text">>, <<"analysis", "escaped">>>>)),
      Frame("update", FieldsText("report_writer",
                <<<<"report", "text">>, <<"analysis", "text">>,
                  <<"research_data", "oneString">>>>)),
      Frame("update", FieldsText("reviewer",
                <<<<"other", "text">>, <<"report", "insights">>>>)),
      Frame("update", FieldsText("researcher",
                <<<<"research_data", "emptyString">>, <<"analysis", "text">>>>)),
      Frame("update", StageText("analyst", "analysis", "text")),
      Frame("error", JSONText("ErrorBoom")) }

NextFields ==
    \/ \E t \in Tasks : Submit(t)
    \/ FetchRejects
    \/ FetchNoBody
    \/ FetchResponds(<<>>)
    \/ \E f \in FieldFrames : ReadFrame(f)
    \/ ReadDone
    \/ ReadFails
    \/ CloseSnackbar

FieldsSpec == Init /\ [][NextFields]_vars

(***************************************************************************)
(* C25.  An update event is dispatched by the first field its stage data   *)
(* has, in the order research_data, analysis, report: once the event is    *)
(* processed the outputs hold one entry whose agent is the first key of    *)
(* the payload, and its type is the name of that field, also when the      *)
(* stage data has several of the fields.                                   *)
(***************************************************************************)
DispatchedByFirstPresent ==
    [][(EventStep /\ Len(NewPairs) = 1 /\ HasKind(NewPairs[1])) =>
        \A h \in {NewPairs[1]} :
            /\ Len(EntriesOf(outputs', StageOf(h))) = 1
            /\ EntriesOf(outputs', StageOf(h))[1].type = PresentKind(h)]_vars

(***************************************************************************)
(* The same program when the server sends one frame, a report of any       *)
(* shape: strings plain and wrapped, objects with an error, with sections  *)
(* and with neither, arrays and other values, with level-2 headings in     *)
(* their text and without, or an error event.                              *)
(***************************************************************************)
ReportNames ==
    HeadedNames \cup {"text", "escaped", "five", "oneString", "objectItem",
                      "insights", "unknownField", "errorRaw", "emptyObject"}

ReportStreams ==
    {Frame("update", StageText("report_writer", "report", s)) : s \in ReportNames}
    \cup {Frame("error", JSONText("ErrorBoom"))}

NextReports ==
    \/ \E t \in Tasks : Submit(t)
    \/ FetchRejects
    \/ FetchNoBody
    \/ \E w \in ReportStreams : FetchResponds(w)
    \/ \E k \in 1..(Len(wire) - pos) : ReadChunk(k)
    \/ ReadDone
    \/ ReadFails
    \/ CloseSnackbar

ReportSpec == Init /\ [][NextReports]_vars

\* a line of the text starts at i, with the marker of a level-2 heading and
\* a space
HeadingAt(s, i) ==
    /\ s[i] = "##" /\ (i = 1 \/ s[i - 1] = NL)
    /\ i < Len(s) /\ s[i + 1] = " "

NoHeadingLine(s) == \A i \in 1..Len(s) : ~HeadingAt(s, i)

\* the text with every line that starts with the marker replaced by the
\* text of that line, the part after the marker and its spaces, in bold
RECURSIVE SkipBlanks(_, _), BoldLines(_, _)
SkipBlanks(s, i) == IF i <= Len(s) /\ s[i] = " " THEN SkipBlanks(s, i + 1) ELSE i
BoldLines(s, i) ==
    IF i > Len(s) THEN <<>>
    ELSE IF HeadingAt(s, i)
         THEN LET b == SkipBlanks(s, i + 1)
                  e == LineEnd(s, b)
              IN <<"**">> \o SubSeq(s, b, e - 1) \o <<"**">> \o BoldLines(s, e)
         ELSE <<s[i]>> \o BoldLines(s, i + 1)

IsReport(h) == NormalizedAs(h, "report") /\ ~normalizeRaises("report", RawContent(h))

(***************************************************************************)
(* C26.  Whatever the shape of a report payload, the content it is         *)
(* normalized to has no line that starts with the marker of a level-2      *)
(* heading: it is the text the shape gives, with each line that starts     *)
(* with the marker rewritten to the text of that line in bold, and         *)
(* downgrading the headings of the content once more changes nothing.      *)
(***************************************************************************)
HeadingsDowngraded ==
    \A n \in 1..Len(handed) :
        (IsReport(handed[n]) /\ EntriesOf(outputs, StageOf(handed[n])) # <<>>) =>
            /\ NoHeadingLine(ContentOf(handed[n]))
            /\ ContentOf(handed[n])
                 = BoldLines(ReportContent(FirstItem(RawContent(handed[n]))), 1)
            /\ DowngradeHeadings(ContentOf(handed[n])) = ContentOf(handed[n])

====
